---- MODULE Spec2Model ----
(***************************************************************************)
(* SocketCAN sockets (src/src/socket.rs): one thread driving CanSocket and *)
(* CanFdSocket handles against the kernel's descriptor table, socket       *)
(* options and the thread's errno.  Every syscall is one step; its outcome *)
(* is chosen among the outcomes the kernel can produce.                    *)
(***************************************************************************)
EXTENDS Integers, Sequences, FiniteSets, TLC

VARIABLES openFds, sockFlags, installed, handles, errno, stdKind, pc, call, result,
          ownedFds, rawFds

vars == <<openFds, sockFlags, installed, handles, errno, stdKind, pc, call, result,
          ownedFds, rawFds>>

(* ------------------------------ bounds -------------------------------- *)

\* Descriptors the process may hold at once.
MaxFd == 1

\* Granularity of the short (partial) transfers the kernel may report.
Chunk == 8

(* ------------------------- program constants -------------------------- *)

CAN_MTU == 16
CANFD_MTU == 72

Fds == 1..MaxFd

SockTypes == {"CanSocket", "CanFdSocket"}

(* ----------------------------- IoError --------------------------------- *)

NoErr == [kind |-> "none", os |-> "none"]

\* The error kinds std can give an OS error with code EINPROGRESS: the
\* code at lines 59-61 expects Other; std maps unknown codes to
\* Uncategorized and, in later releases, EINPROGRESS to InProgress.
EinprogressKinds == {"Other", "Uncategorized", "InProgress"}

\* IoError::kind() of an error built from an OS error code.
decode_error_kind(e) ==
    CASE e \in {"EAGAIN", "EWOULDBLOCK"} -> "WouldBlock"
      [] e = "EINTR" -> "Interrupted"
      [] e = "ETIMEDOUT" -> "TimedOut"
      [] e = "EINPROGRESS" -> stdKind
      [] OTHER -> "Uncategorized"

\* IoError::from_raw_os_error / From<rustix::io::Errno>.
OsError(e) == [kind |-> decode_error_kind(e), os |-> e]

\* From<IoErrorKind> for IoError: a kind with no OS code.
KindError(k) == [kind |-> k, os |-> "none"]

\* IoError::last_os_error(): whatever the thread's errno holds now.
last_os_error(en) == OsError(en)

\* impl ShouldRetry for IoError
should_retry(e) ==
    CASE e.kind = "WouldBlock" -> TRUE
      [] e.kind = "Other" -> e.os = "EINPROGRESS"
      [] OTHER -> FALSE

\* impl ShouldRetry for IoResult
should_retry_result(r) ==
    IF ~r.ok THEN should_retry(r.err) ELSE FALSE

(* ----------------------------- results --------------------------------- *)

Unit == [tag |-> "unit"]

Ok(op, v) == [op |-> op, ok |-> TRUE, val |-> v, err |-> NoErr]
Err(op, e) == [op |-> op, ok |-> FALSE, val |-> Unit, err |-> e]
NoResult == [op |-> "none", ok |-> TRUE, val |-> Unit, err |-> NoErr]

\* A read's result, with the socket type it was called on and what the
\* last read syscall of the call reported: a byte count, -1 for an error,
\* -2 when the call made no read at all.
ReadResult(r, type, n) == r @@ [on |-> type, read |-> n]

ReadOps == {"read_frame", "read_frame_timeout"}

NoCall == [op |-> "none"]

(* --------------------------- kernel state ------------------------------ *)

\* A descriptor that is not open carries no socket state.
NoFlags == [cloexec |-> FALSE, nonblock |-> FALSE, fd_frames |-> FALSE]

\* The filter a fresh CAN_RAW socket has: one rule matching every frame.
DefaultFilter == << <<0, 0>> >>

\* close(fd): the descriptor leaves the table and its socket state is gone.
Close(fd) ==
    /\ openFds' = openFds \ {fd}
    /\ sockFlags' = [sockFlags EXCEPT ![fd] = NoFlags]
    /\ installed' = [installed EXCEPT ![fd] = <<>>]

\* The lowest free descriptor, as the kernel allocates it.
FreshFd == CHOOSE fd \in Fds \ openFds : \A g \in Fds \ openFds : fd <= g

\* Errors a failing rustix call may leave in errno: rustix's raw-syscall
\* backend leaves errno alone, its libc backend stores the code there.
RustixErrno(e) == {errno, e}

(* ------------------------------- Init ---------------------------------- *)

Init ==
    /\ openFds = {}
    /\ sockFlags = [fd \in Fds |-> NoFlags]
    /\ installed = [fd \in Fds |-> <<>>]
    /\ handles = {}
    /\ errno = "0"
    /\ stdKind \in EinprogressKinds
    /\ pc = "idle"
    /\ call = NoCall
    /\ result = NoResult
    /\ ownedFds = {}
    /\ rawFds = {}

(* ------------------------------- open ---------------------------------- *)

\* Socket::open_addr entered (CanSocket lines 551-554, CanFdSocket 680-684).
OpenAddr(type, nonblocking) ==
    /\ pc = "idle"
    /\ pc' = "socket_with"
    /\ call' = [op |-> "open_addr", type |-> type, nonblocking |-> nonblocking,
                before |-> openFds]
    /\ result' = NoResult
    /\ UNCHANGED <<openFds, sockFlags, installed, handles, errno, stdKind, ownedFds, rawFds>>

\* The flags raw_open_socket passes to socket_with (lines 83-87).
SocketFlags(nonblocking) ==
    IF nonblocking
    THEN [cloexec |-> TRUE, nonblock |-> TRUE, fd_frames |-> FALSE]
    ELSE [cloexec |-> FALSE, nonblock |-> FALSE, fd_frames |-> FALSE]

\* raw_open_socket: rustix::net::socket_with(...)? (lines 80-91).
SocketWith ==
    /\ pc = "socket_with"
    /\ \/ /\ Fds \ openFds # {}
          /\ openFds' = openFds \cup {FreshFd}
          /\ sockFlags' = [sockFlags EXCEPT ![FreshFd] = SocketFlags(call.nonblocking)]
          /\ installed' = [installed EXCEPT ![FreshFd] = DefaultFilter]
          /\ pc' = "bind"
          /\ call' = call @@ [sock |-> FreshFd]
          /\ UNCHANGED <<errno, result>>
       \/ /\ errno' \in RustixErrno("ENOMEM")
          /\ result' = Err("open_addr", OsError("ENOMEM")) @@ [before |-> call.before]
          /\ pc' = "idle"
          /\ call' = NoCall
          /\ UNCHANGED <<openFds, sockFlags, installed>>
    /\ UNCHANGED <<handles, stdKind, ownedFds, rawFds>>

\* The failure path had the descriptor been kept as a raw fd: not closed.
BindFailed_Leak(fd) ==
    UNCHANGED <<openFds, sockFlags, installed>>

\* What leaving raw_open_socket through `?` at line 93 does to `sock`:
\* the socket2::Socket is dropped, which closes its descriptor.
BindFailed(fd) ==
    Close(fd)

\* What returning Err from set_fd_mode (line 645) does to `sock`, which
\* the function took by value: it is dropped, closing the descriptor.
FdModeFailed(fd) ==
    Close(fd)

\* The handle Ok(Self(sock)) wraps.
NewHandle(type, fd) == [type |-> type, fd |-> fd]

SockVal(h) == [tag |-> "sock", type |-> h.type, fd |-> h.fd]

\* raw_open_socket: sock.bind(&SockAddr::from(*addr))? (line 93), then
\* CanSocket::open_addr wraps the socket (line 553).
Bind ==
    /\ pc = "bind"
    /\ \/ /\ call.type = "CanSocket"
          /\ handles' = handles \cup {NewHandle(call.type, call.sock)}
          /\ result' = Ok("open_addr", SockVal(NewHandle(call.type, call.sock)))
                        @@ [before |-> call.before]
          /\ pc' = "idle"
          /\ call' = NoCall
          /\ UNCHANGED <<openFds, sockFlags, installed, errno>>
       \/ /\ call.type = "CanFdSocket"
          /\ pc' = "set_fd_mode"
          /\ UNCHANGED <<openFds, sockFlags, installed, handles, errno, call, result>>
       \/ /\ errno' = "ENODEV"
          /\ BindFailed(call.sock)
          /\ result' = Err("open_addr", OsError("ENODEV")) @@ [before |-> call.before]
          /\ pc' = "idle"
          /\ call' = NoCall
          /\ UNCHANGED handles
    /\ UNCHANGED <<stdKind, ownedFds, rawFds>>

\* CanFdSocket::set_fd_mode(sock, true) and .map(Self) (lines 630-647, 682-683).
SetFdMode ==
    /\ pc = "set_fd_mode"
    /\ \/ /\ sockFlags' = [sockFlags EXCEPT ![call.sock].fd_frames = TRUE]
          /\ handles' = handles \cup {NewHandle(call.type, call.sock)}
          /\ result' = Ok("open_addr", SockVal(NewHandle(call.type, call.sock)))
                        @@ [before |-> call.before]
          /\ UNCHANGED <<openFds, installed, errno>>
       \/ /\ errno' = "ENOPROTOOPT"
          /\ FdModeFailed(call.sock)
          /\ result' = Err("open_addr", last_os_error(errno')) @@ [before |-> call.before]
          /\ UNCHANGED handles
    /\ pc' = "idle"
    /\ call' = NoCall
    /\ UNCHANGED <<stdKind, ownedFds, rawFds>>

\* Dropping a handle drops its socket2::Socket, which closes the descriptor.
Drop(h) ==
    /\ pc = "idle"
    /\ h \in handles
    /\ handles' = handles \ {h}
    /\ Close(h.fd)
    /\ result' = NoResult
    /\ UNCHANGED <<errno, stdKind, ownedFds, rawFds, pc, call>>

(* ---------------------------- ownership -------------------------------- *)

FdVal(fd) == [tag |-> "fd", fd |-> fd]

\* The handle is dropped at the end of into_raw_fd and its descriptor is
\* closed, as with self.0.as_raw_fd().
into_raw_fd_Closes(fd) ==
    Close(fd)

\* self.0.into_raw_fd() (lines 589, 734): socket2::Socket gives up the
\* descriptor without closing it.
into_raw_fd(fd) ==
    UNCHANGED <<openFds, sockFlags, installed>>

\* IntoRawFd for CanSocket and CanFdSocket (lines 587-591, 732-736): the
\* handle is consumed and the caller holds the bare descriptor number.
IntoRawFd(h) ==
    /\ pc = "idle"
    /\ h \in handles
    /\ handles' = handles \ {h}
    /\ into_raw_fd(h.fd)
    /\ rawFds' = rawFds \cup {h.fd}
    /\ result' = Ok("into_raw_fd", FdVal(h.fd)) @@ [from |-> h]
    /\ UNCHANGED <<errno, stdKind, pc, call, ownedFds>>

\* The caller wraps a bare descriptor it holds in an OwnedFd, the argument
\* From<OwnedFd> takes (lines 582, 727).
OwnedFromRaw(fd) ==
    /\ pc = "idle"
    /\ fd \in rawFds
    /\ rawFds' = rawFds \ {fd}
    /\ ownedFds' = ownedFds \cup {fd}
    /\ result' = NoResult
    /\ UNCHANGED <<openFds, sockFlags, installed, handles, errno, stdKind, pc, call>>

\* From<OwnedFd> for CanSocket and CanFdSocket (lines 581-585, 726-730):
\* Self(socket2::Socket::from(fd)); the OwnedFd is moved into the handle
\* and no socket option is touched.
FromOwnedFd(type, fd) ==
    /\ pc = "idle"
    /\ fd \in ownedFds
    /\ ownedFds' = ownedFds \ {fd}
    /\ handles' = handles \cup {NewHandle(type, fd)}
    /\ result' = Ok("from", SockVal(NewHandle(type, fd)))
    /\ UNCHANGED <<openFds, sockFlags, installed, errno, stdKind, pc, call, rawFds>>

(* ------------------------------ reads ---------------------------------- *)

\* Byte counts a transfer of at most `len` bytes may report: nothing,
\* everything, or a short count.
Counts(len) == {0, len} \cup {k * Chunk : k \in 1..(len \div Chunk)}

\* Error codes a read or write on the socket may fail with.
IoErrnos == {"EINTR", "EAGAIN", "EINPROGRESS", "ENETDOWN"}

FrameVal(kind, len) == [tag |-> "frame", kind |-> kind, len |-> len]

\* Socket::read_frame entered: CanSocket (lines 565-568) reads through
\* read_raw_frame and read_uninit_exact, CanFdSocket (695-714) reads once.
ReadEntry(type) ==
    IF type = "CanSocket" THEN "read_uninit_exact" ELSE "read_any"

ReadFrame(h) ==
    /\ pc = "idle"
    /\ h \in handles
    /\ pc' = ReadEntry(h.type)
    /\ call' = [op |-> "read_frame", h |-> h, filled |-> 0]
    /\ result' = NoResult
    /\ UNCHANGED <<openFds, sockFlags, installed, handles, errno, stdKind, ownedFds, rawFds>>

\* The arm with the end-of-input test missing: a zero-byte read ends the loop.
read_uninit_exact_EofIsOk(len, n) ==
    IF len - n = 0 \/ n = 0 THEN "ok" ELSE "more"

\* The Ok arm of read_uninit_exact (lines 531-539): `len` bytes of the
\* buffer were still to fill and the read delivered n of them.
read_uninit_exact_arm(len, n) ==
    IF len - n = 0 THEN "ok"
    ELSE IF n = 0 THEN "eof"
    ELSE "more"

\* One turn of the loop of read_uninit_exact (lines 528-544) under
\* CanSocket::read_raw_frame / read_frame (lines 521-525, 565-568).
ReadUninitExact ==
    /\ pc = "read_uninit_exact"
    /\ \/ \E n \in Counts(CAN_MTU - call.filled) :
            LET arm == read_uninit_exact_arm(CAN_MTU - call.filled, n) IN
            /\ errno' = errno
            /\ CASE arm = "ok" ->
                      /\ result' = ReadResult(Ok(call.op, FrameVal("CanFrame", call.filled + n)),
                                            "CanSocket", n)
                      /\ pc' = "idle"
                      /\ call' = NoCall
                 [] arm = "eof" ->
                      /\ result' = ReadResult(Err(call.op, KindError("UnexpectedEof")),
                                            "CanSocket", n)
                      /\ pc' = "idle"
                      /\ call' = NoCall
                 [] OTHER ->
                      /\ call' = [call EXCEPT !.filled = call.filled + n]
                      /\ UNCHANGED <<pc, result>>
       \/ \E e \in IoErrnos :
            /\ errno' \in RustixErrno(e)
            /\ IF OsError(e).kind = "Interrupted"
               THEN UNCHANGED <<pc, call, result>>
               ELSE /\ result' = ReadResult(Err(call.op, OsError(e)), "CanSocket", -1)
                    /\ pc' = "idle"
                    /\ call' = NoCall
    /\ UNCHANGED <<openFds, sockFlags, installed, handles, stdKind, ownedFds, rawFds>>

\* Byte counts the single read into the 72-byte buffer may report.
AnyCounts == Counts(CANFD_MTU) \cup {CAN_MTU}

\* The match with a catch-all classic arm instead of the error arm.
read_any_ShortIsClassic(op, n, en) ==
    IF n = CANFD_MTU THEN Ok(op, FrameVal("CanFdFrame", CANFD_MTU))
    ELSE Ok(op, FrameVal("CanFrame", n))

\* The match of CanFdSocket::read_frame on the byte count (lines 701-713).
read_any_dispatch(op, n, en) ==
    CASE n = CAN_MTU -> Ok(op, FrameVal("CanFrame", CAN_MTU))
      [] n = CANFD_MTU -> Ok(op, FrameVal("CanFdFrame", CANFD_MTU))
      [] OTHER -> Err(op, last_os_error(en))

\* CanFdSocket::read_frame (lines 695-714): one read_uninit, then the match.
ReadAny ==
    /\ pc = "read_any"
    /\ \/ \E n \in AnyCounts :
            /\ errno' = errno
            /\ result' = ReadResult(read_any_dispatch(call.op, n, errno), "CanFdSocket", n)
       \/ \E e \in IoErrnos :
            /\ errno' \in RustixErrno(e)
            /\ result' = ReadResult(Err(call.op, OsError(e)), "CanFdSocket", -1)
    /\ pc' = "idle"
    /\ call' = NoCall
    /\ UNCHANGED <<openFds, sockFlags, installed, handles, stdKind, ownedFds, rawFds>>

(* -------------------------- read_frame_timeout ------------------------- *)

\* Durations handed to read_frame_timeout: whole seconds below MaxSecs
\* and a sub-second part in nanoseconds.
MaxSecs == 4294968

Durations ==
    { [secs |-> 0, nanos |-> 0],
      [secs |-> 0, nanos |-> 100000000],
      [secs |-> 2147483, nanos |-> 647000000],
      [secs |-> 2147483, nanos |-> 648000000],
      [secs |-> MaxSecs - 1, nanos |-> 296000000],
      [secs |-> MaxSecs, nanos |-> 0] }

\* Duration::as_millis(): a u128, kept as <<bits 0-15, bits 16-31, the rest>>.
as_millis(d) ==
    LET sl == d.secs % 65536
        sh == d.secs \div 65536
        low == sl * 1000 + d.nanos \div 1000000
        mid == sh * 1000 + low \div 65536
    IN  <<low % 65536, mid % 65536, mid \div 65536>>

\* `as c_int` on the u128: the low 32 bits, read as two's complement.
as_c_int(m) ==
    IF m[2] >= 32768 THEN (m[2] - 65536) * 65536 + m[1] ELSE m[2] * 65536 + m[1]

\* The timeout argument of poll at line 270.
PollWait(d) == as_c_int(as_millis(d))

\* Socket::read_frame_timeout entered (lines 263-268).
ReadFrameTimeout(h, d) ==
    /\ pc = "idle"
    /\ h \in handles
    /\ pc' = "poll"
    /\ call' = [op |-> "read_frame_timeout", h |-> h, filled |-> 0, timeout |-> d]
    /\ result' = NoResult
    /\ UNCHANGED <<openFds, sockFlags, installed, handles, errno, stdKind, ownedFds, rawFds>>

\* The 0 arm of the match at lines 270-271.
poll_zero(op, type) ==
    [pc |-> "idle", result |-> ReadResult(Err(op, KindError("TimedOut")), type, -2)]

\* poll(&mut [pollfd], wait)? and the match on its count (lines 270-278).
\* poll reports 0 only when a non-negative wait runs out; with a negative
\* wait it returns only on readiness or on an error.
Poll ==
    /\ pc = "poll"
    /\ \/ /\ PollWait(call.timeout) >= 0
          /\ pc' = poll_zero(call.op, call.h.type).pc
          /\ result' = poll_zero(call.op, call.h.type).result
          /\ call' = IF pc' = "idle" THEN NoCall ELSE call
          /\ errno' = errno
       \/ /\ pc' = ReadEntry(call.h.type)
          /\ UNCHANGED <<call, result, errno>>
       \/ \E e \in {"EINTR", "ENOMEM"} :
            /\ errno' \in RustixErrno(e)
            /\ result' = ReadResult(Err(call.op, OsError(e)), call.h.type, -2)
            /\ pc' = "idle"
            /\ call' = NoCall
    /\ UNCHANGED <<openFds, sockFlags, installed, handles, stdKind, ownedFds, rawFds>>

(* ------------------------------ writes --------------------------------- *)

\* The frame types a socket's write_frame accepts (F: Into<FrameType>).
FrameKinds(type) ==
    IF type = "CanSocket" THEN {"CanFrame"} ELSE {"CanFrame", "CanFdFrame"}

\* frame.as_bytes().len(): the size of the frame's C structure.
FrameLen(kind) == IF kind = "CanFrame" THEN CAN_MTU ELSE CANFD_MTU

\* Socket::write_frame entered (lines 557-562, 687-692).
WriteFrame(h, kind) ==
    /\ pc = "idle"
    /\ h \in handles
    /\ kind \in FrameKinds(h.type)
    /\ pc' = "write_all"
    /\ call' = [op |-> "write_frame", h |-> h, frame |-> kind, written |-> 0,
                last |-> NoResult]
    /\ result' = NoResult
    /\ UNCHANGED <<openFds, sockFlags, installed, handles, errno, stdKind, ownedFds, rawFds>>

\* Socket::write_frame_insist entered (lines 307-311).
WriteFrameInsist(h, kind) ==
    /\ pc = "idle"
    /\ h \in handles
    /\ kind \in FrameKinds(h.type)
    /\ pc' = "write_all"
    /\ call' = [op |-> "write_frame_insist", h |-> h, frame |-> kind, written |-> 0,
                last |-> NoResult]
    /\ result' = NoResult
    /\ UNCHANGED <<openFds, sockFlags, installed, handles, errno, stdKind, ownedFds, rawFds>>

\* The match without the should_retry guard: every outcome is returned.
insist_returns_OnAnyError(o) ==
    TRUE

\* The match of write_frame_insist on one attempt's outcome (lines 312-316):
\* TRUE when the loop returns that outcome, FALSE when it goes round again.
insist_returns(o) ==
    CASE o.ok -> TRUE
      [] should_retry(o.err) -> FALSE
      [] OTHER -> TRUE

\* write_frame has finished with outcome o, having written sent bytes.
WriteFrameDone(o, sent) ==
    IF call.op = "write_frame_insist" /\ ~insist_returns(o)
    THEN /\ call' = [call EXCEPT !.written = 0, !.last = o]
         /\ UNCHANGED <<pc, result>>
    ELSE /\ result' = [o EXCEPT !.op = call.op]
                      @@ [swallowed |-> call.last, frame |-> call.frame,
                          sent |-> sent]
         /\ pc' = "idle"
         /\ call' = NoCall

\* A write that took any bytes at all ends the call.
write_all_arm_SingleWrite(len, n) ==
    IF n = 0 THEN "zero" ELSE "done"

\* Write::write_all after a write of n of the len remaining bytes (lines
\* 561, 691): Ok(0) is WriteZero, otherwise the rest of the buffer is
\* written next and the call ends when nothing remains.
write_all_arm(len, n) ==
    IF n = 0 THEN "zero"
    ELSE IF n = len THEN "done"
    ELSE "more"

\* One turn of the loop of Write::write_all, which write_frame calls on
\* frame.as_bytes() (lines 561, 691): one write of the bytes still unsent.
WriteAll ==
    /\ pc = "write_all"
    /\ LET len == FrameLen(call.frame) - call.written IN
       \/ \E n \in Counts(len) :
            /\ errno' = errno
            /\ IF write_all_arm(len, n) = "zero"
               THEN WriteFrameDone(Err("write_frame", KindError("WriteZero")),
                                   call.written)
               ELSE IF write_all_arm(len, n) = "done"
               THEN WriteFrameDone(Ok("write_frame", Unit), call.written + n)
               ELSE /\ call' = [call EXCEPT !.written = call.written + n]
                    /\ UNCHANGED <<pc, result>>
       \/ \E e \in IoErrnos :
            /\ errno' = e
            /\ IF OsError(e).kind = "Interrupted"
               THEN UNCHANGED <<pc, call, result>>
               ELSE WriteFrameDone(Err("write_frame", OsError(e)), call.written)
    /\ UNCHANGED <<openFds, sockFlags, installed, handles, stdKind, ownedFds, rawFds>>

(* ------------------------------ filters -------------------------------- *)

\* size_of::<libc::can_filter>(): two u32.
SizeOfCanFilter == 8

\* CanFilter::new (lines 775-780).
CanFilterNew(id, mask) == [can_id |-> id, can_mask |-> mask]

\* From<(u32, u32)> for CanFilter (lines 794-798).
CanFilterFrom(t) == CanFilterNew(t[1], t[2])

\* The (id, mask) lists callers pass to set_filters.
FilterLists ==
    { <<>>, << <<0, 1>>, <<2, 3>> >> }

\* What setsockopt(fd, SOL_CAN_RAW, CAN_RAW_FILTER, ptr, len) installs on
\* success: len / sizeof(can_filter) rules read from ptr, none for len 0.
KernelFilter(arg) ==
    [i \in 1..(arg.len \div SizeOfCanFilter) |-> arg.ptr[i]]

\* Whether the kernel can take the argument at all: a whole number of
\* rules, and a readable pointer when there is at least one.
KernelFilterArgOk(arg) ==
    /\ arg.len % SizeOfCanFilter = 0
    /\ arg.len > 0 => arg.ptr # <<>>

\* The length taken as size_of::<T>() instead of size_of_val(values).
mult_arg_FirstOnly(values) ==
    IF values = <<>>
    THEN [ptr |-> <<>>, len |-> 0]
    ELSE [ptr |-> values, len |-> SizeOfCanFilter]

\* The pointer and length set_socket_option_mult passes (lines 361-374).
mult_arg(values) ==
    IF values = <<>>
    THEN [ptr |-> <<>>, len |-> 0]
    ELSE [ptr |-> values, len |-> Len(values) * SizeOfCanFilter]

\* A rule list as <<can_id, can_mask>> pairs, the layout the kernel keeps.
Stored(values) == [i \in 1..Len(values) |-> <<values[i].can_id, values[i].can_mask>>]

\* Identifiers of the frames on the bus.
MaxId == 3

FrameIds == 0..MaxId

CAN_INV_FILTER == 536870912

RECURSIVE BitAnd(_, _)
\* a & b on non-negative integers.
BitAnd(a, b) ==
    IF a = 0 \/ b = 0 THEN 0
    ELSE (a % 2) * (b % 2) + 2 * BitAnd(a \div 2, b \div 2)

\* Whether a stored rule <<can_id, can_mask>> matches a received id: the
\* rule documented at lines 764-769, inverted when the rule's id carries
\* CAN_INV_FILTER.
Matches(rule, id) ==
    LET inv == BitAnd(rule[1], CAN_INV_FILTER) # 0
        can_id == IF inv THEN rule[1] - CAN_INV_FILTER ELSE rule[1]
        eq == BitAnd(id, rule[2]) = BitAnd(can_id, rule[2])
    IN  IF inv THEN ~eq ELSE eq

\* Whether a socket with these rules receives a frame: it is accepted if
\* it matches any of them (lines 467-469; join_filters is off).
Receives(rules, id) == \E i \in 1..Len(rules) : Matches(rules[i], id)

\* a | b on non-negative integers.
BitOr(a, b) == a + b - BitAnd(a, b)

\* The constructor without the inversion bit.
CanFilterNewInverted_NoBit(id, mask) ==
    CanFilterNew(id, mask)

\* CanFilter::new_inverted (lines 783-785).
CanFilterNewInverted(id, mask) ==
    CanFilterNew(BitOr(id, CAN_INV_FILTER), mask)

\* The ids and masks callers hand to the constructors: plain ids, and the
\* same ids with bit 29 already set.
FilterIds == FrameIds \cup {CAN_INV_FILTER + i : i \in FrameIds}

FilterMasks == FrameIds

\* What a constructor returns, with the arguments it was given.
FilterVal(op, f, id, mask) ==
    Ok(op, [tag |-> "filter", rule |-> f]) @@ [id |-> id, mask |-> mask]

FilterCtors == {"new", "new_inverted"}

\* CanFilter::new called (lines 775-780).
NewFilter(id, mask) ==
    /\ pc = "idle"
    /\ result' = FilterVal("new", CanFilterNew(id, mask), id, mask)
    /\ call' = NoCall
    /\ UNCHANGED <<openFds, sockFlags, installed, handles, errno, stdKind, ownedFds, rawFds, pc>>

\* CanFilter::new_inverted called (lines 783-785).
NewInvertedFilter(id, mask) ==
    /\ pc = "idle"
    /\ result' = FilterVal("new_inverted", CanFilterNewInverted(id, mask), id, mask)
    /\ call' = NoCall
    /\ UNCHANGED <<openFds, sockFlags, installed, handles, errno, stdKind, ownedFds, rawFds, pc>>

\* A frame with identifier rid is tested against the rule just built, as
\* the kernel tests it against an installed rule.
FrameArrives(rid) ==
    /\ pc = "idle"
    /\ result.op \in FilterCtors
    /\ call' = [op |-> "match", rid |-> rid,
                matched |-> Matches(Stored(<<result.val.rule>>)[1], rid)]
    /\ UNCHANGED <<openFds, sockFlags, installed, handles, errno, stdKind, ownedFds, rawFds, pc, result>>

\* A filter call's result, with the descriptor it acted on, the rules it
\* was given and the rules installed before it.
FilterResult(r, h, values) ==
    r @@ [fd |-> h.fd, values |-> Stored(values), prev |-> installed[h.fd]]

FilterOps == {"set_filters", "set_filter_drop_all", "set_filter_accept_all"}

\* SocketOptions::set_socket_option_mult on CAN_RAW_FILTER (lines 360-380):
\* one setsockopt; on failure errno is set and last_os_error returned.
set_socket_option_mult(op, h, values) ==
    /\ pc = "idle"
    /\ h \in handles
    /\ \/ /\ KernelFilterArgOk(mult_arg(values))
          /\ installed' = [installed EXCEPT ![h.fd] = Stored(KernelFilter(mult_arg(values)))]
          /\ errno' = errno
          /\ result' = FilterResult(Ok(op, Unit), h, values)
       \/ /\ errno' \in {"EINVAL", "ENOMEM"}
          /\ \/ errno' = "ENOMEM" /\ mult_arg(values).len > 0
             \/ errno' = "EINVAL" /\ ~KernelFilterArgOk(mult_arg(values))
          /\ installed' = installed
          /\ result' = FilterResult(Err(op, last_os_error(errno')), h, values)
    /\ UNCHANGED <<openFds, sockFlags, handles, stdKind, ownedFds, rawFds, pc, call>>

\* SocketOptions::set_filters (lines 389-395).
SetFilters(h, filters) ==
    set_socket_option_mult("set_filters", h,
                           [i \in 1..Len(filters) |-> CanFilterFrom(filters[i])])

\* SocketOptions::set_filter_drop_all (lines 400-403).
SetFilterDropAll(h) ==
    set_socket_option_mult("set_filter_drop_all", h, <<>>)

\* SocketOptions::set_filter_accept_all (lines 409-412).
SetFilterAcceptAll(h) ==
    set_socket_option_mult("set_filter_accept_all", h, << CanFilterFrom(<<0, 0>>) >>)

Next ==
    \/ \E type \in SockTypes, nonblocking \in BOOLEAN : OpenAddr(type, nonblocking)
    \/ SocketWith
    \/ Bind
    \/ SetFdMode
    \/ \E h \in handles : Drop(h)
    \/ \E h \in handles : ReadFrame(h)
    \/ ReadUninitExact
    \/ ReadAny
    \/ \E h \in handles, d \in Durations : ReadFrameTimeout(h, d)
    \/ Poll
    \/ \E h \in handles, kind \in {"CanFrame", "CanFdFrame"} : WriteFrame(h, kind)
    \/ \E h \in handles, kind \in {"CanFrame", "CanFdFrame"} : WriteFrameInsist(h, kind)
    \/ WriteAll
    \/ \E h \in handles, filters \in FilterLists : SetFilters(h, filters)
    \/ \E h \in handles : SetFilterDropAll(h)
    \/ \E h \in handles : SetFilterAcceptAll(h)

Spec == Init /\ [][Next]_vars

\* Handles opened, converted to and from descriptors, and dropped.
OwnNext ==
    \/ \E type \in SockTypes, nonblocking \in BOOLEAN : OpenAddr(type, nonblocking)
    \/ SocketWith
    \/ Bind
    \/ SetFdMode
    \/ \E h \in handles : Drop(h)
    \/ \E h \in handles : IntoRawFd(h)
    \/ \E fd \in Fds : OwnedFromRaw(fd)
    \/ \E type \in SockTypes, fd \in Fds : FromOwnedFd(type, fd)

OwnSpec == Init /\ [][OwnNext]_vars

\* The filter value on its own: rules are built and frames tested on them.
FilterNext ==
    \/ \E id \in FilterIds, mask \in FilterMasks : NewFilter(id, mask)
    \/ \E id \in FilterIds, mask \in FilterMasks : NewInvertedFilter(id, mask)
    \/ \E rid \in FrameIds : FrameArrives(rid)

FilterSpec == Init /\ [][FilterNext]_vars

(* ====================== properties of the sockets ====================== *)

IsReadResult(type) ==
    /\ result.op \in ReadOps
    /\ result.on = type

C2_DispatchOnCount ==
    /\ (IsReadResult("CanFdSocket") /\ result.read # -2) =>
         /\ result.read = CAN_MTU => result.ok /\ result.val = FrameVal("CanFrame", CAN_MTU)
         /\ result.read = CANFD_MTU =>
              result.ok /\ result.val = FrameVal("CanFdFrame", CANFD_MTU)
         /\ result.read \notin {CAN_MTU, CANFD_MTU} => ~result.ok /\ result.val = Unit
    /\ pc = "read_any" => result = NoResult

\* A short count on the FD socket: 8 bytes read, an error returned.
C2_Witness ==
    /\ IsReadResult("CanFdSocket")
    /\ result.read = Chunk
    /\ ~result.ok

\* C3: the error CanFdSocket::read_frame returns for a byte count other
\* than 16 or 72 is a hard error whatever errno held before: should_retry
\* is false for it and it is neither timed-out nor would-block.
C3_ProtocolViolationIsHard ==
    (/\ IsReadResult("CanFdSocket")
     /\ result.read >= 0
     /\ result.read \notin {CAN_MTU, CANFD_MTU}) =>
        /\ ~should_retry_result(result)
        /\ result.err.kind \notin {"TimedOut", "WouldBlock"}

\* C4: after a failed open (socket creation, bind or enabling FD mode) the
\* open descriptors are those open before it and no handle was produced.
C4_FailedOpenLeaksNothing ==
    (result.op = "open_addr" /\ ~result.ok) =>
        /\ openFds = result.before
        /\ result.val = Unit
        /\ \A h \in handles : h.fd \in result.before

\* Enabling FD mode failed on the descriptor this open had created.
C4_Witness ==
    /\ result.op = "open_addr"
    /\ ~result.ok
    /\ result.err.os = "ENOPROTOOPT"
    /\ openFds = {}

\* C5: the socket raw_open_socket creates has CLOEXEC requested whatever
\* `nonblocking` is, and NONBLOCK requested iff `nonblocking` is true.
C5_CloexecAlways ==
    pc = "bind" =>
        /\ sockFlags[call.sock].cloexec
        /\ sockFlags[call.sock].nonblock = call.nonblocking

\* The codes that signal a blocking timeout.
TimeoutCodes == {"EAGAIN", "EWOULDBLOCK", "EINPROGRESS"}

\* C6: should_retry is true for every error whose OS code signals a
\* blocking timeout, whatever kind the runtime gives it, and false for
\* every other error; on a result it is true only for such an Err.
C6_ClassifiesTimeoutCodes ==
    \A r \in {result} \cup (IF pc = "write_all" THEN {call.last} ELSE {}) :
        should_retry_result(r) = (~r.ok /\ r.err.os \in TimeoutCodes)

\* C7: write_frame_insist returns only with an outcome that is not
\* retry-worthy (Ok, or a terminal error), and goes round its loop only
\* after an attempt whose outcome was retry-worthy.
C7_InsistReturnsFirstFinal ==
    /\ result.op = "write_frame_insist" =>
         /\ ~should_retry_result(result)
         /\ result.swallowed # NoResult => should_retry_result(result.swallowed)
    /\ (pc = "write_all" /\ call.last # NoResult) =>
         /\ call.op = "write_frame_insist"
         /\ should_retry_result(call.last)

\* write_frame_insist returned Ok after swallowing a retry-worthy failure.
C7_Witness ==
    /\ result.op = "write_frame_insist"
    /\ result.ok
    /\ result.swallowed # NoResult

\* C8: for every duration d the wait read_frame_timeout passes to poll is
\* d in milliseconds, which is not negative, so that the poll ends when no
\* frame arrives; and the timed-out error is returned without a read.
C8_PollWaitIsDuration ==
    /\ pc = "poll" =>
         /\ PollWait(call.timeout) >= 0
         /\ as_millis(call.timeout)[3] = 0
    /\ (result.op = "read_frame_timeout" /\ result.err = KindError("TimedOut")) =>
         result.read = -2

\* C9: the timed-out failure read_frame_timeout returns on zero readiness
\* is retry-worthy for the classifier.
C9_TimedOutIsRetryWorthy ==
    (result.op = "read_frame_timeout" /\ result.err = KindError("TimedOut")) =>
        should_retry_result(result)

\* C10: after a filter call the installed rules are exactly those of the
\* call when it succeeded and those installed before when it failed;
\* installing the empty set succeeds and leaves no rule, so no frame is
\* received; set_filter_accept_all leaves the single rule (0,0), so every
\* frame is received.
C10_FiltersReplaced ==
    result.op \in FilterOps =>
        /\ result.ok => installed[result.fd] = result.values
        /\ ~result.ok => installed[result.fd] = result.prev
        /\ result.values = <<>> =>
             /\ result.ok
             /\ installed[result.fd] = <<>>
             /\ \A id \in FrameIds : ~Receives(installed[result.fd], id)
        /\ (result.op = "set_filter_accept_all" /\ result.ok) =>
             /\ installed[result.fd] = << <<0, 0>> >>
             /\ \A id \in FrameIds : Receives(installed[result.fd], id)

\* Two rules were installed over the rules of an earlier call.
C10_Witness ==
    /\ result.op = "set_filters"
    /\ result.ok
    /\ Len(result.values) = 2
    /\ result.prev \notin {result.values, DefaultFilter}

\* What the claim says of a rule built from (id, mask) and a received id.
C11_Expected(op, id, mask, rid) ==
    LET eq == BitAnd(rid, mask) = BitAnd(id, mask)
    IN  IF op = "new" THEN eq ELSE ~eq

\* new stores id and mask unchanged; new_inverted stores the same pair
\* with the inversion bit set on the id.
C11_Stored ==
    /\ result.op = "new" =>
         result.val.rule = [can_id |-> result.id, can_mask |-> result.mask]
    /\ result.op = "new_inverted" =>
         result.val.rule = [can_id |-> BitOr(result.id, CAN_INV_FILTER),
                            can_mask |-> result.mask]

\* C11 as stated: for all (id, mask) pairs and every received id, a rule
\* built by new matches iff (received_id & mask) == (id & mask), one built
\* by new_inverted matches iff that is false, and the stored pair is as
\* the constructors say.
C11_MatchesAllPairs ==
    /\ C11_Stored
    /\ call.op = "match" =>
         call.matched = C11_Expected(result.op, result.id, result.mask, call.rid)

\* C11 amended: the same for the pairs in which neither id nor mask has
\* bit 29 (CAN_INV_FILTER) set, and received ids without that bit.
C11_MatchesValidPairs ==
    /\ C11_Stored
    /\ (/\ call.op = "match"
        /\ BitAnd(result.id, CAN_INV_FILTER) = 0
        /\ BitAnd(result.mask, CAN_INV_FILTER) = 0
        /\ BitAnd(call.rid, CAN_INV_FILTER) = 0) =>
         call.matched = C11_Expected(result.op, result.id, result.mask, call.rid)

\* An inverted rule built from a plain id matched a frame whose id differs
\* under the mask.
C11_Witness ==
    /\ call.op = "match"
    /\ result.op = "new_inverted"
    /\ BitAnd(result.id, CAN_INV_FILTER) = 0
    /\ result.mask # 0
    /\ call.matched

\* C14: an interrupted (EINTR) syscall is never surfaced to the caller of a
\* read: no read_frame and no read_frame_timeout, on either socket type,
\* in its poll phase or its read phase, returns an error of kind
\* Interrupted.
C14_InterruptNeverSurfaced ==
    result.op \in ReadOps => result.err.kind # "Interrupted"

C12_HandleFds == {h.fd : h \in handles}

\* Every owner holds an open descriptor, no descriptor has two owners, and
\* a descriptor handed out by into_raw_fd is open and has no owner.
C12_OwnersDistinct ==
    /\ \A h1, h2 \in handles : h1.fd = h2.fd => h1 = h2
    /\ C12_HandleFds \cap ownedFds = {}
    /\ (C12_HandleFds \cup ownedFds) \cap rawFds = {}
    /\ C12_HandleFds \cup ownedFds \cup rawFds \subseteq openFds
    /\ result.op = "into_raw_fd" =>
         /\ result.val.fd \in openFds
         /\ result.val.fd \in rawFds
         /\ result.from \notin handles

\* A descriptor is closed only by the drop of the handle that owns it (or
\* by a failing open, for the socket that open created), a handle that
\* goes away closes its descriptor unless it went through into_raw_fd,
\* and From<OwnedFd> leaves the handle as the descriptor's only owner.
C12_ClosedByOwnerOnly ==
    /\ \A fd \in openFds \ openFds' :
         \/ \E h \in handles \ handles' : h.fd = fd
         \/ pc \in {"bind", "set_fd_mode"} /\ call.sock = fd
    /\ \A h \in handles \ handles' :
         IF result'.op = "into_raw_fd"
         THEN h.fd \in openFds' /\ result'.val.fd = h.fd
         ELSE h.fd \notin openFds'
    /\ \A h \in handles' \ handles :
         result'.op = "from" => h.fd \in ownedFds /\ h.fd \notin ownedFds'

\* C12: in every reachable state each open descriptor managed by this code
\* has at most one owning handle; a handle's descriptor is closed exactly
\* once, when the handle is dropped; into_raw_fd consumes the handle
\* without closing the descriptor and From<OwnedFd> takes the descriptor
\* over from its previous owner, so no sequence of open, From<OwnedFd>,
\* into_raw_fd and drop closes a descriptor twice or leaves two owners.
C12_SingleOwner ==
    []C12_OwnersDistinct /\ [][C12_ClosedByOwnerOnly]_vars

\* From<OwnedFd> has built a handle on a descriptor that an earlier handle
\* gave up through into_raw_fd: the new handle is its only owner.
C12_Witness ==
    /\ result.op = "from"
    /\ NewHandle(result.val.type, result.val.fd) \in handles
    /\ result.val.fd \in openFds
    /\ result.val.fd \notin ownedFds \cup rawFds

\* C13: every CanFdSocket handle that exists, however it was obtained,
\* wraps a descriptor on which FD-frame mode is enabled.
C13_FdHandleHasFdMode ==
    \A h \in handles : h.type = "CanFdSocket" => sockFlags[h.fd].fd_frames

====
